---- MODULE Spec2Model ----
(***************************************************************************)
(* Model of src/app.py: the Streamlit page "Zip & Envie para Telegram".    *)
(*                                                                         *)
(* Strings are sequences of one-character strings, so that the character   *)
(* operations of the code (replace, strip, lower, endswith, isdigit,       *)
(* zfill, the 02d format) are computed and not assumed.  None is the       *)
(* empty tuple and a present value v is the one-element tuple <<v>>.       *)
(***************************************************************************)
EXTENDS Integers, Sequences, FiniteSets, TLC

VARIABLES
    files,                  \* st.file_uploader value: the gallery selection
    photo,                  \* st.camera_input value: the capture the widget holds
    camera_photos,          \* st.session_state.camera_photos
    zip_bytes,              \* st.session_state.zip_bytes
    zip_name,               \* st.session_state.zip_name
    serial,                 \* st.session_state.serial
    auto_increment_serial,  \* st.session_state.auto_increment_serial
    auto_split,             \* the "Auto dividir" toggle
    credenciais_ok,         \* bool(BOT_TOKEN and CHAT_ID)
    captures,               \* how many photos the camera widget has taken
    stored_delivered,       \* the ZIP held in zip_bytes has reached the chat
    run,                    \* what the last script run did (its handler's trace)
    inp,                    \* arguments of a helper called on its own
    out                     \* what that helper returned

vars == <<files, photo, camera_photos, zip_bytes, zip_name, serial,
          auto_increment_serial, auto_split, credenciais_ok, captures,
          stored_delivered, run, inp, out>>

sessionVars == <<files, photo, camera_photos, zip_bytes, zip_name, serial,
                 auto_increment_serial, auto_split, credenciais_ok, captures,
                 stored_delivered, run>>

(***************************************************************************)
(* Bounds of the model.                                                    *)
(***************************************************************************)
MaxFiles == 4        \* longest file list handed to chunk_files_by_size alone
MaxSize == 4         \* largest file size (and ceiling) in that list
MaxDelta == 3        \* payload lengths within MaxDelta bytes of the limit
MaxSerialLen == 2    \* longest identifier handed to apply_serial_to_name alone
MaxPart == 11        \* largest part number handed to apply_serial_to_name alone
MaxZipFiles == 3     \* longest file list handed to make_zip_in_memory alone
MaxQueue == 2        \* longest camera queue the session is followed to
MaxCaptures == 1     \* photos the camera widget takes in a session
MaxSerialValue == 10 \* largest numeric identifier a send is followed from

None == <<>>
Some(v) == <<v>>

(***************************************************************************)
(* Python's str and int operations used by the code.                       *)
(***************************************************************************)
DigitChars == <<"0", "1", "2", "3", "4", "5", "6", "7", "8", "9">>

IsDigitChar(c) == \E i \in 1..10 : DigitChars[i] = c

DigitVal(c) == (CHOOSE i \in 1..10 : DigitChars[i] = c) - 1

\* str.isdigit(): non-empty and every character a digit
isdigit(s) == Len(s) > 0 /\ \A i \in 1..Len(s) : IsDigitChar(s[i])

RECURSIVE int(_)
\* int(s) of a string of digits
int(s) == IF Len(s) = 0 THEN 0
          ELSE 10 * int(SubSeq(s, 1, Len(s) - 1)) + DigitVal(s[Len(s)])

RECURSIVE str(_)
\* str(n) of an integer n >= 0
str(n) == IF n < 10 THEN <<DigitChars[n + 1]>>
          ELSE str(n \div 10) \o <<DigitChars[(n % 10) + 1]>>

RECURSIVE zfill(_, _)
\* str.zfill(width) of a string without sign
zfill(s, width) == IF Len(s) >= width THEN s ELSE zfill(<<"0">> \o s, width)

\* the format specification 02d of an integer n >= 0
fmt02d(n) == zfill(str(n), 2)

UpperChars == <<"Z", "I", "P">>
LowerChars == <<"z", "i", "p">>

\* str.lower(), character by character
lowerChar(c) == IF \E i \in 1..3 : UpperChars[i] = c
                THEN LowerChars[CHOOSE i \in 1..3 : UpperChars[i] = c]
                ELSE c

lower(s) == [i \in 1..Len(s) |-> lowerChar(s[i])]

endswith(s, suffix) ==
    /\ Len(s) >= Len(suffix)
    /\ SubSeq(s, Len(s) - Len(suffix) + 1, Len(s)) = suffix

IsSpace(c) == c = " "

RECURSIVE lstrip(_)
lstrip(s) == IF Len(s) > 0 /\ IsSpace(s[1]) THEN lstrip(Tail(s)) ELSE s

RECURSIVE rstrip(_)
rstrip(s) == IF Len(s) > 0 /\ IsSpace(s[Len(s)])
             THEN rstrip(SubSeq(s, 1, Len(s) - 1)) ELSE s

\* str.strip()
strip(s) == rstrip(lstrip(s))

\* str.replace(" ", "_")
replaceSpaces(s) == [i \in 1..Len(s) |-> IF s[i] = " " THEN "_" ELSE s[i]]

\* os.path.basename: what follows the last "/"
basename(s) ==
    LET cuts == {i \in 1..Len(s) : s[i] = "/"}
    IN  IF cuts = {} THEN s
        ELSE SubSeq(s, (CHOOSE i \in cuts : \A j \in cuts : j <= i) + 1, Len(s))

DotZip == <<".", "z", "i", "p">>

RECURSIVE SumSizes(_)
SumSizes(fs) == IF Len(fs) = 0 THEN 0 ELSE fs[1].size + SumSizes(Tail(fs))

RECURSIVE Flatten(_)
Flatten(ss) == IF Len(ss) = 0 THEN <<>> ELSE ss[1] \o Flatten(Tail(ss))

(***************************************************************************)
(* chunk_files_by_size                                                     *)
(***************************************************************************)
\* ChunkStep comparing the total before the file is added to it
ChunkStep_LateCheck(st, f, max_bytes) ==
    IF f.size > max_bytes
    THEN [batches |-> (IF st.current # <<>>
                       THEN Append(st.batches, st.current)
                       ELSE st.batches) \o <<(<<f>>)>>,
          current |-> <<>>,
          total   |-> 0]
    ELSE IF st.total > max_bytes
    THEN [batches |-> Append(st.batches, st.current),
          current |-> <<f>>,
          total   |-> f.size]
    ELSE [batches |-> st.batches,
          current |-> Append(st.current, f),
          total   |-> st.total + f.size]

\* one iteration of the for loop on the file f; st = [batches, current, total]
ChunkStep(st, f, max_bytes) ==
    IF f.size > max_bytes
    THEN [batches |-> (IF st.current # <<>>
                       THEN Append(st.batches, st.current)
                       ELSE st.batches) \o <<(<<f>>)>>,
          current |-> IF st.current # <<>> THEN <<>> ELSE st.current,
          total   |-> IF st.current # <<>> THEN 0 ELSE st.total]
    ELSE IF st.total + f.size > max_bytes
    THEN [batches |-> Append(st.batches, st.current),
          current |-> <<f>>,
          total   |-> f.size]
    ELSE [batches |-> st.batches,
          current |-> Append(st.current, f),
          total   |-> st.total + f.size]

RECURSIVE ChunkLoop(_, _, _)
ChunkLoop(st, fs, max_bytes) ==
    IF Len(fs) = 0 THEN st
    ELSE ChunkLoop(ChunkStep(st, fs[1], max_bytes), Tail(fs), max_bytes)

\* chunk_files_by_size without the flush of lines 152-153
chunk_files_by_size_NoFlush(fs, max_bytes) ==
    ChunkLoop([batches |-> <<>>, current |-> <<>>, total |-> 0], fs, max_bytes).batches

chunk_files_by_size(fs, max_bytes) ==
    LET st == ChunkLoop([batches |-> <<>>, current |-> <<>>, total |-> 0],
                        fs, max_bytes)
    IN  IF st.current # <<>> THEN Append(st.batches, st.current) ELSE st.batches

DefaultMaxBytes == 45 * 1024 * 1024

(***************************************************************************)
(* apply_serial_to_name                                                    *)
(***************************************************************************)
\* part is None or Some(n); "if part" is false for None and for 0
apply_serial_to_name(base_name, serial_, part) ==
    LET root   == IF endswith(lower(base_name), DotZip)
                  THEN SubSeq(base_name, 1, Len(base_name) - 4)
                  ELSE base_name
        tag    == IF serial_ # <<>>
                  THEN <<"_", "N", "S", "-">> \o strip(serial_)
                  ELSE <<>>
        suffix == IF part # None /\ part[1] # 0
                  THEN <<"_", "p", "a", "r", "t", "e">> \o fmt02d(part[1])
                  ELSE <<>>
    IN  root \o tag \o suffix \o DotZip

(***************************************************************************)
(* make_zip_in_memory                                                      *)
(***************************************************************************)
ManifestName == <<"M", "A", "N", "I", "F", "E", "S", "T", "O", ".", "t", "x", "t">>

\* the member name the for loop gives the file f
MemberName(f) == replaceSpaces(basename(f.name))

\* The archive: the members written by zf.writestr in order (one per file, then
\* the manifest) and the manifest's lines, the CRIADO_EM timestamp left out.
\* The images are already compressed, so the archive's length is taken as the
\* members' bytes whatever the compression level.
make_zip_in_memory(file_objs, filename, serial_, compresslevel) ==
    LET names == [i \in 1..Len(file_objs) |-> MemberName(file_objs[i])]
    IN  [members  |-> [i \in 1..Len(file_objs) |->
                          [name |-> names[i], data |-> file_objs[i].id]]
                      \o <<[name |-> ManifestName, data |-> "manifest"]>>,
         manifest |-> [SERIAL       |-> serial_,
                       ARQUIVO_ZIP  |-> filename,
                       QTD_ARQUIVOS |-> Len(names),
                       ARQUIVOS     |-> names],
         nbytes   |-> SumSizes(file_objs)]

\* ZipFile.namelist() of an archive
namelist(zip) == [i \in 1..Len(zip.members) |-> zip.members[i].name]

(***************************************************************************)
(* send_zip_to_telegram                                                    *)
(***************************************************************************)
TelegramLimit == 50 * 1024 * 1024

\* What requests.post can do: raise (timeout, connection), or answer with a
\* status code and a JSON body whose "ok" is true or false.
Responses ==
    { [raises |-> TRUE,  status_code |-> 0,   ok |-> FALSE],
      [raises |-> FALSE, status_code |-> 200, ok |-> TRUE],
      [raises |-> FALSE, status_code |-> 200, ok |-> FALSE],
      [raises |-> FALSE, status_code |-> 500, ok |-> FALSE] }

\* the size check refusing a payload of exactly the limit
TooLarge_AtLimit(zip) == zip.nbytes >= TelegramLimit

\* the size check of line 121
TooLarge(zip) == zip.nbytes > TelegramLimit

\* posted: requests.post was called; raised: the exception, "" when it returned
send_zip_to_telegram(zip, filename, bot_token, chat_id, resp) ==
    IF bot_token = "" \/ chat_id = ""
    THEN [raised |-> "ValueError: BOT_TOKEN ou CHAT_ID ausentes", posted |-> FALSE]
    ELSE IF TooLarge(zip)
    THEN [raised |-> "ValueError: ZIP acima de 50 MB", posted |-> FALSE]
    ELSE IF resp.raises
    THEN [raised |-> "RequestException", posted |-> TRUE]
    ELSE IF resp.status_code # 200
    THEN [raised |-> "RuntimeError: Falha no envio", posted |-> TRUE]
    ELSE IF ~resp.ok
    THEN [raised |-> "RuntimeError: Telegram retornou erro", posted |-> TRUE]
    ELSE [raised |-> "", posted |-> TRUE]

(***************************************************************************)
(* The session after the state block of lines 167-176, before any widget   *)
(* holds a value.                                                          *)
(***************************************************************************)
\* The trace of a script run: the button handled, what get_all_files returned,
\* the identifier the run started with and whether a ZIP was stored, the archives
\* make_zip_in_memory built, the calls of send_zip_to_telegram, the batch
\* loop's counters, the documents the chat received, the messages shown and
\* how many entries the camera queue gained.
NoRun == [action |-> "none", selected |-> <<>>, serial_before |-> <<>>,
          had_stored |-> FALSE, resend |-> FALSE, batched |-> FALSE,
          assembled |-> <<>>, calls |-> <<>>, total |-> 0, sent |-> 0,
          delivered |-> <<>>, reports |-> <<>>, appended |-> 0]

SessionStart ==
    /\ files = <<>>
    /\ photo = None
    /\ camera_photos = <<>>
    /\ zip_bytes = None
    /\ zip_name = None
    /\ serial = <<>>
    /\ auto_increment_serial = FALSE
    /\ auto_split = TRUE
    /\ captures = 0
    /\ stored_delivered = FALSE
    /\ run = NoRun

SeqsUpTo(S, n) == UNION {[1..k -> S] : k \in 0..n}

(***************************************************************************)
(* The helpers called on their own, on inputs drawn from bounded sets.     *)
(***************************************************************************)
ChunkInputs ==
    { [fn        |-> "chunk_files_by_size",
       files     |-> [i \in 1..Len(sz) |-> [id |-> i, size |-> sz[i]]],
       max_bytes |-> m] :
      sz \in SeqsUpTo(0..MaxSize, MaxFiles), m \in 0..MaxSize }

InitChunk ==
    /\ SessionStart
    /\ credenciais_ok = TRUE
    /\ inp \in ChunkInputs
    /\ out = None

CallChunk ==
    /\ inp.fn = "chunk_files_by_size"
    /\ out = None
    /\ out' = Some(chunk_files_by_size(inp.files, inp.max_bytes))
    /\ UNCHANGED <<sessionVars, inp>>

SpecChunk == InitChunk /\ [][CallChunk]_vars

BaseNames ==
    { <<>>,
      <<"f">>,
      <<"f", ".", "z", "i", "p">>,
      <<"f", ".", "Z", "I", "P">>,
      <<"f", ".", "z", "i", "p", ".", "z", "i", "p">>,
      <<"f", ".", "j", "p", "g">>,
      <<"a", " ", "b", ".", "z", "i", "p">> }

SerialAlphabet == {"A", "7", "-", "_", " ", "/"}

\* part numbers as line 322 counts them, from 1
NameInputs ==
    { [fn |-> "apply_serial_to_name", base_name |-> b, serial |-> s, part |-> p] :
      b \in BaseNames,
      s \in SeqsUpTo(SerialAlphabet, MaxSerialLen),
      p \in {None} \cup {Some(n) : n \in 1..MaxPart} }

InitName ==
    /\ SessionStart
    /\ credenciais_ok = TRUE
    /\ inp \in NameInputs
    /\ out = None

CallName ==
    /\ inp.fn = "apply_serial_to_name"
    /\ out = None
    /\ out' = Some(apply_serial_to_name(inp.base_name, inp.serial, inp.part))
    /\ UNCHANGED <<sessionVars, inp>>

SpecName == InitName /\ [][CallName]_vars

\* file names as an upload or a capture can carry them (line 188 lets only
\* image extensions through)
FileNames ==
    { <<"a", " ", "b", ".", "j", "p", "g">>,
      <<"a", "_", "b", ".", "j", "p", "g">>,
      <<"d", "/", "a", " ", "b", ".", "j", "p", "g">>,
      <<"c", ".", "p", "n", "g">>,
      <<"c", "a", "m", ".", "j", "p", "g">> }

ZipInputs ==
    { [fn        |-> "make_zip_in_memory",
       file_objs |-> [i \in 1..Len(ns) |-> [id |-> i, name |-> ns[i], size |-> i]],
       filename  |-> <<"f", ".", "z", "i", "p">>,
       serial    |-> <<"7">>] :
      ns \in SeqsUpTo(FileNames, MaxZipFiles) }

InitZip ==
    /\ SessionStart
    /\ credenciais_ok = TRUE
    /\ inp \in ZipInputs
    /\ out = None

CallZip ==
    /\ inp.fn = "make_zip_in_memory"
    /\ out = None
    /\ out' = Some(make_zip_in_memory(inp.file_objs, inp.filename, inp.serial, 9))
    /\ UNCHANGED <<sessionVars, inp>>

SpecZip == InitZip /\ [][CallZip]_vars

PayloadLengths == {0} \cup ((TelegramLimit - MaxDelta)..(TelegramLimit + MaxDelta))

SendInputs ==
    { [fn        |-> "send_zip_to_telegram",
       zip_bytes |-> [nbytes |-> n],
       bot_token |-> t,
       chat_id   |-> c,
       resp      |-> r] :
      n \in PayloadLengths, t \in {"", "123456:ABC"}, c \in {"", "7557997151"},
      r \in Responses }

InitSend ==
    /\ SessionStart
    /\ credenciais_ok = TRUE
    /\ inp \in SendInputs
    /\ out = None

CallSend ==
    /\ inp.fn = "send_zip_to_telegram"
    /\ out = None
    /\ out' = Some(send_zip_to_telegram(inp.zip_bytes, <<"f", ".", "z", "i", "p">>,
                                        inp.bot_token, inp.chat_id, inp.resp))
    /\ UNCHANGED <<sessionVars, inp>>

SpecSend == InitSend /\ [][CallSend]_vars

(***************************************************************************)
(* The page as a session: every user interaction re-runs the script from   *)
(* top to bottom, and an action below is one such run.                     *)
(***************************************************************************)
MiB == 1024 * 1024

g1 == [id |-> "g1", name |-> <<"a", " ", "b", ".", "j", "p", "g">>, size |-> 30 * MiB]

g2 == [id |-> "g2", name |-> <<"a", "_", "b", ".", "j", "p", "g">>, size |-> 20 * MiB]

g3 == [id |-> "g3", name |-> <<"c", ".", "p", "n", "g">>, size |-> 60 * MiB]

\* what the file uploader can hold
Selections == { <<>>, <<g1, g2>>, <<g1, g3, g2>> }

\* the n-th photo the camera widget takes
Capture(n) ==
    [id |-> n, name |-> <<"c", "a", "m", ".", "j", "p", "g">>, size |-> 2 * MiB]

\* what the user can type as the identifier
SerialInputs ==
    { <<>>,
      <<"E", "Q", "-", "0", "0", "9">>,
      <<"0", "0", "9">> }

\* the "Nome base do arquivo ZIP" box, holding the name the user typed
ZipNameInput == <<"f", ".", "z", "i", "p">>

BOT_TOKEN == IF credenciais_ok THEN "123456:ABC" ELSE ""

CHAT_ID == IF credenciais_ok THEN "7557997151" ELSE ""

\* lines 211-212: the capture the widget holds is appended on every run
CameraTab(held, queue) == IF held # None THEN Append(queue, held[1]) ELSE queue

get_all_files(fs, queue) == fs \o queue

\* the handlers going on with an empty selection
NothingSelected_Never(selected) == FALSE

\* "if not selected" of lines 279 and 315
NothingSelected(selected) == selected = <<>>

\* lines 312-313 and 337-338
IncrementSerial(s) == zfill(str(int(s) + 1), Len(s))

AfterSuccessfulSend(s, auto_inc) ==
    IF auto_inc /\ isdigit(s) THEN IncrementSerial(s) ELSE s

\* the except branch never taken: the loop goes on after a failed send
SendFailed_Never(res) == FALSE

\* the try/except around send_zip_to_telegram: the except branch was taken
SendFailed(res) == res.raised # ""

\* the trace of a run that handles no button: only the camera tab acts
Rerun(what, queue) ==
    [NoRun EXCEPT !.action = what,
                  !.appended = Len(queue) - Len(camera_photos)]

\* the trace a button's run starts with, before its handler
StartRun(what, queue) ==
    [NoRun EXCEPT !.action = what,
                  !.selected = get_all_files(files, queue),
                  !.serial_before = serial,
                  !.had_stored = zip_bytes # None,
                  !.appended = Len(queue) - Len(camera_photos)]

\* every run appends the held capture: the queue is followed up to MaxQueue
QueueHasRoom == photo = None \/ Len(camera_photos) < MaxQueue

InitSession ==
    /\ SessionStart
    /\ credenciais_ok \in BOOLEAN
    /\ inp = None
    /\ out = None

(***************************************************************************)
(* Runs that click no button: a widget changed and the script ran again.   *)
(***************************************************************************)
TakePhoto ==
    /\ Len(camera_photos) < MaxQueue
    /\ captures < MaxCaptures
    /\ captures' = captures + 1
    /\ photo' = Some(Capture(captures'))
    /\ camera_photos' = CameraTab(photo', camera_photos)
    /\ run' = Rerun("capture", camera_photos')
    /\ UNCHANGED <<files, zip_bytes, zip_name, serial, auto_increment_serial,
                   auto_split, credenciais_ok, stored_delivered, inp, out>>

DiscardPhoto ==
    /\ photo # None
    /\ photo' = None
    /\ camera_photos' = CameraTab(photo', camera_photos)
    /\ run' = Rerun("rerun", camera_photos')
    /\ UNCHANGED <<files, zip_bytes, zip_name, serial, auto_increment_serial,
                   auto_split, credenciais_ok, captures, stored_delivered, inp, out>>

SelectFiles ==
    /\ QueueHasRoom
    /\ \E fs \in Selections \ {files} : files' = fs
    /\ camera_photos' = CameraTab(photo, camera_photos)
    /\ run' = Rerun("rerun", camera_photos')
    /\ UNCHANGED <<photo, zip_bytes, zip_name, serial, auto_increment_serial,
                   auto_split, credenciais_ok, captures, stored_delivered, inp, out>>

EditSerial ==
    /\ QueueHasRoom
    /\ \E s \in SerialInputs \ {serial} : serial' = s
    /\ camera_photos' = CameraTab(photo, camera_photos)
    /\ run' = Rerun("rerun", camera_photos')
    /\ UNCHANGED <<files, photo, zip_bytes, zip_name, auto_increment_serial,
                   auto_split, credenciais_ok, captures, stored_delivered, inp, out>>

ToggleAutoIncrement ==
    /\ QueueHasRoom
    /\ auto_increment_serial' = ~auto_increment_serial
    /\ camera_photos' = CameraTab(photo, camera_photos)
    /\ run' = Rerun("rerun", camera_photos')
    /\ UNCHANGED <<files, photo, zip_bytes, zip_name, serial, auto_split,
                   credenciais_ok, captures, stored_delivered, inp, out>>

ToggleAutoSplit ==
    /\ QueueHasRoom
    /\ auto_split' = ~auto_split
    /\ camera_photos' = CameraTab(photo, camera_photos)
    /\ run' = Rerun("rerun", camera_photos')
    /\ UNCHANGED <<files, photo, zip_bytes, zip_name, serial, auto_increment_serial,
                   credenciais_ok, captures, stored_delivered, inp, out>>

(***************************************************************************)
(* "Gerar ZIP", lines 276-294.                                             *)
(***************************************************************************)
Generate ==
    /\ QueueHasRoom
    /\ camera_photos' = CameraTab(photo, camera_photos)
    /\ LET selected   == get_all_files(files, camera_photos')
           final_name == apply_serial_to_name(ZipNameInput, serial, None)
           bz         == make_zip_in_memory(selected, final_name, serial, 9)
           start      == StartRun("generate", camera_photos')
       IN  IF NothingSelected(selected)
           THEN /\ run' = [start EXCEPT !.reports = <<"warning: Selecione imagens">>]
                /\ UNCHANGED <<zip_bytes, zip_name, stored_delivered>>
           ELSE /\ zip_bytes' = Some(bz)
                /\ zip_name' = Some(final_name)
                /\ stored_delivered' = FALSE
                /\ run' = [start EXCEPT !.assembled = <<bz>>,
                                        !.reports = <<"success: ZIP gerado">>]
    /\ UNCHANGED <<files, photo, serial, auto_increment_serial, auto_split,
                   credenciais_ok, captures, inp, out>>

(***************************************************************************)
(* "Enviar para Telegram", lines 296-338.                                  *)
(***************************************************************************)
RECURSIVE BatchLoop(_, _, _)
\* The for loop of lines 322-334 from batch i on, acc being the trace so far:
\* the traces it can end with, one for each way the network can answer the
\* calls it makes.
BatchLoop(batches, i, acc) ==
    IF i > Len(batches) THEN {acc}
    ELSE LET name_i == apply_serial_to_name(ZipNameInput, serial, Some(i))
             zip_i  == make_zip_in_memory(batches[i], name_i, serial, 9)
             Iteration(resp) ==
                 LET res  == send_zip_to_telegram(zip_i, name_i, BOT_TOKEN, CHAT_ID, resp)
                     call == [part |-> Some(i), zip |-> zip_i, filename |-> name_i,
                              raised |-> res.raised, posted |-> res.posted]
                     acc1 == [acc EXCEPT !.assembled = Append(@, zip_i),
                                         !.calls = Append(@, call)]
                 IN  IF SendFailed(res)
                     THEN {[acc1 EXCEPT
                               !.reports = Append(@, "error: Falha ao enviar lote")]}
                     ELSE BatchLoop(batches, i + 1,
                                    [acc1 EXCEPT
                                        !.sent = @ + 1,
                                        !.delivered = Append(@, [filename |-> name_i,
                                                                 zip |-> zip_i]),
                                        !.reports = Append(@, "caption: Lote enviado")])
         IN  UNION {Iteration(resp) : resp \in Responses}

\* the direct send of the stored ZIP, lines 303-313
DirectSend(start, resp) ==
    LET res  == send_zip_to_telegram(zip_bytes[1], zip_name[1], BOT_TOKEN, CHAT_ID, resp)
        call == [part |-> None, zip |-> zip_bytes[1], filename |-> zip_name[1],
                 raised |-> res.raised, posted |-> res.posted]
        sent == [start EXCEPT !.calls = <<call>>, !.total = 1,
                              !.resend = stored_delivered /\ ~SendFailed(res)]
    IN  IF SendFailed(res)
        THEN /\ run' = [sent EXCEPT !.reports = <<"error: Erro">>]
             /\ UNCHANGED <<serial, stored_delivered>>
        ELSE /\ run' = [sent EXCEPT !.sent = 1,
                                    !.delivered = <<[filename |-> zip_name[1],
                                                     zip |-> zip_bytes[1]]>>,
                                    !.reports = <<"success: Enviado com sucesso">>]
             /\ serial' = AfterSuccessfulSend(serial, auto_increment_serial)
             /\ stored_delivered' = TRUE

\* the batched send, lines 315-338
BatchedSend(start, selected) ==
    LET batches == chunk_files_by_size(selected, DefaultMaxBytes)
    IN  \E done \in BatchLoop(batches, 1,
                              [start EXCEPT !.batched = TRUE, !.total = Len(batches)]) :
            IF done.sent = done.total
            THEN /\ run' = [done EXCEPT !.reports = Append(@, "success: Todos os lotes")]
                 /\ serial' = AfterSuccessfulSend(serial, auto_increment_serial)
            ELSE /\ run' = done
                 /\ UNCHANGED serial

\* the identifier is followed while a send can increment it up to MaxSerialValue
SerialHasRoom == isdigit(serial) => int(serial) < MaxSerialValue

Send ==
    /\ QueueHasRoom
    /\ SerialHasRoom
    /\ camera_photos' = CameraTab(photo, camera_photos)
    /\ LET selected == get_all_files(files, camera_photos')
           start    == StartRun("send", camera_photos')
       IN  IF ~credenciais_ok
           THEN /\ run' = [start EXCEPT !.reports = <<"error: Credenciais ausentes">>]
                /\ UNCHANGED <<serial, stored_delivered>>
           ELSE IF zip_bytes # None /\ ~auto_split
           THEN \E resp \in Responses : DirectSend(start, resp)
           ELSE IF NothingSelected(selected)
           THEN /\ run' = [start EXCEPT !.reports = <<"warning: Selecione imagens">>]
                /\ UNCHANGED <<serial, stored_delivered>>
           ELSE /\ BatchedSend(start, selected)
                /\ UNCHANGED stored_delivered
    /\ UNCHANGED <<files, photo, zip_bytes, zip_name, auto_increment_serial,
                   auto_split, credenciais_ok, captures, inp, out>>

(***************************************************************************)
(* "Limpar selecao", lines 345-349: the handler clears the session and     *)
(* st.experimental_rerun() runs the script again at once.                  *)
(***************************************************************************)
ClearSelection ==
    /\ zip_bytes' = None
    /\ zip_name' = None
    /\ stored_delivered' = FALSE
    /\ camera_photos' = CameraTab(photo, <<>>)
    /\ run' = [StartRun("clear", CameraTab(photo, camera_photos)) EXCEPT
                  !.appended = Len(camera_photos')]
    /\ UNCHANGED <<files, photo, serial, auto_increment_serial, auto_split,
                   credenciais_ok, captures, inp, out>>

(***************************************************************************)
(* "Testar credenciais", lines 351-367.                                    *)
(***************************************************************************)
TestCredentials ==
    /\ QueueHasRoom
    /\ camera_photos' = CameraTab(photo, camera_photos)
    /\ \E resp \in Responses :
          run' = [Rerun("test", camera_photos') EXCEPT
                     !.reports =
                         IF ~credenciais_ok
                         THEN <<"error: Configure BOT_TOKEN e CHAT_ID">>
                         ELSE IF resp.raises
                         THEN <<"error: Erro ao testar credenciais">>
                         ELSE IF resp.status_code < 400 /\ resp.ok
                         THEN <<"success: Mensagem de teste enviada">>
                         ELSE <<"error: Falha no teste de credenciais">>]
    /\ UNCHANGED <<files, photo, zip_bytes, zip_name, serial, auto_increment_serial,
                   auto_split, credenciais_ok, captures, stored_delivered, inp, out>>

Next ==
    \/ TakePhoto
    \/ DiscardPhoto
    \/ SelectFiles
    \/ EditSerial
    \/ ToggleAutoIncrement
    \/ ToggleAutoSplit
    \/ Generate
    \/ Send
    \/ ClearSelection
    \/ TestCredentials

Spec == InitSession /\ [][Next]_vars

(***************************************************************************)
(* Properties of chunk_files_by_size, under SpecChunk.                     *)
(***************************************************************************)
Oversized(f) == f.size > inp.max_bytes

\* C1: every batch chunk_files_by_size returns has a total size of at most
\* max_bytes, unless it is exactly one file that is itself larger than
\* max_bytes; a file larger than max_bytes is always alone in its batch.
ChunkBatchesWithinCeiling ==
    out # None =>
        \A b \in 1..Len(out[1]) :
            LET batch == out[1][b]
            IN  /\ \/ SumSizes(batch) <= inp.max_bytes
                   \/ Len(batch) = 1 /\ Oversized(batch[1])
                /\ \A k \in 1..Len(batch) : Oversized(batch[k]) => Len(batch) = 1

\* an oversized file between two batches of several files each
ChunkOversizedBetweenNeighbours ==
    /\ out # None
    /\ \E b \in 2..(Len(out[1]) - 1) :
          /\ Len(out[1][b]) = 1 /\ Oversized(out[1][b][1])
          /\ Len(out[1][b - 1]) >= 1 /\ ~Oversized(out[1][b - 1][1])
          /\ Len(out[1][b + 1]) >= 2

\* C2: the batches concatenated in order are the input list, no batch is
\* empty, and an empty input gives no batch.
ChunkPreservesFiles ==
    out # None =>
        /\ Flatten(out[1]) = inp.files
        /\ \A b \in 1..Len(out[1]) : out[1][b] # <<>>
        /\ (inp.files = <<>> => out[1] = <<>>)

\* a list of several files split into several batches
ChunkSplitsSeveral ==
    /\ out # None
    /\ Len(inp.files) >= 3
    /\ Len(out[1]) >= 2
    /\ \E b \in 1..Len(out[1]) : Len(out[1][b]) >= 2

(***************************************************************************)
(* Properties of send_zip_to_telegram, under SpecSend.                     *)
(***************************************************************************)
\* C3: with non-empty credentials a payload longer than 50 MiB fails with the
\* size-limit error and no network call, and a payload of at most 50 MiB is
\* posted.
SendRejectsAboveLimit ==
    (out # None /\ inp.bot_token # "" /\ inp.chat_id # "") =>
        IF inp.zip_bytes.nbytes > 50 * 1024 * 1024
        THEN out[1].raised = "ValueError: ZIP acima de 50 MB" /\ ~out[1].posted
        ELSE out[1].posted

\* a payload of 50 MiB + 1 byte was refused and one of exactly 50 MiB is posted
SendOneByteAboveLimit ==
    /\ out # None
    /\ inp.bot_token # ""
    /\ inp.chat_id # ""
    /\ inp.zip_bytes.nbytes = 50 * 1024 * 1024 + 1
    /\ ~out[1].posted

(***************************************************************************)
(* Properties of make_zip_in_memory, under SpecZip.                        *)
(***************************************************************************)
\* C7: the member names of one archive are pairwise distinct, the manifest's
\* name included.
ZipMemberNamesDistinct ==
    out # None =>
        \A i, j \in 1..Len(out[1].members) :
            i # j => namelist(out[1])[i] # namelist(out[1])[j]

(***************************************************************************)
(* Properties of apply_serial_to_name, under SpecName.                     *)
(***************************************************************************)
\* the alphanumerics, "-" and "_" among the characters an identifier is drawn from
SafeChars == {DigitChars[i] : i \in 1..10} \cup {"A", "-", "_"}

\* sanitize of the specification: every other character becomes "_"
Sanitize(s) == [i \in 1..Len(s) |-> IF s[i] \in SafeChars THEN s[i] ELSE "_"]

\* the base name without the extension it carries
StemOf(b) == IF endswith(lower(b), DotZip) THEN SubSeq(b, 1, Len(b) - 4) ELSE b

NameAsSpecified(b, s, p) ==
    StemOf(b)
    \o (IF s # <<>> THEN <<"_", "N", "S", "-">> \o Sanitize(s) ELSE <<>>)
    \o (IF p # None THEN <<"_", "p", "a", "r", "t", "e">> \o fmt02d(p[1]) ELSE <<>>)
    \o DotZip

\* C8: the name is the stem of the base name, "_NS-<sanitized identifier>"
\* exactly when the identifier is non-empty, "_parteNN" exactly when a part
\* number is given, and one ".zip" extension (the stem being the base name
\* without the ".zip" it ends with).
NameIsStemTagPartZip ==
    out # None =>
        out[1] = NameAsSpecified(inp.base_name, inp.serial, inp.part)

(***************************************************************************)
(* Properties of the session, under Spec.                                  *)
(***************************************************************************)
\* the files an archive holds, by identity, in order
FilesIn(zip) == [i \in 1..(Len(zip.members) - 1) |-> zip.members[i].data]

IdsOf(fs) == [i \in 1..Len(fs) |-> fs[i].id]

\* C4: a batched submission calls the transport for batches 1, 2, ... in that
\* order, once each; the first failed send ends it: no later batch is
\* assembled or sent, the failure is reported, and the batches sent before it
\* stay delivered.
BatchesInOrderFailFast ==
    (run.action = "send" /\ run.batched) =>
        LET n       == Len(run.calls)
            batches == chunk_files_by_size(run.selected, 45 * 1024 * 1024)
        IN  /\ n >= 1
            /\ n <= run.total
            /\ run.total = Len(batches)
            /\ Len(run.assembled) = n
            /\ \A i \in 1..n :
                  /\ run.calls[i].part = Some(i)
                  /\ run.calls[i].zip = run.assembled[i]
                  /\ FilesIn(run.calls[i].zip) = IdsOf(batches[i])
            /\ \A i \in 1..(n - 1) : run.calls[i].raised = ""
            /\ run.delivered = [i \in 1..Len(run.delivered) |->
                                   [filename |-> run.calls[i].filename,
                                    zip      |-> run.calls[i].zip]]
            /\ IF run.calls[n].raised # ""
               THEN /\ Len(run.delivered) = n - 1
                    /\ run.sent = n - 1
                    /\ run.reports[Len(run.reports)] = "error: Falha ao enviar lote"
               ELSE /\ n = run.total
                    /\ Len(run.delivered) = n
                    /\ run.sent = n

\* the second of three batches failed: the first stays delivered, the third is
\* never assembled or sent
SecondOfThreeBatchesFailed ==
    /\ run.action = "send"
    /\ run.batched
    /\ run.total = 3
    /\ Len(run.calls) = 2
    /\ run.calls[2].raised # ""
    /\ Len(run.delivered) = 1
    /\ Len(run.assembled) = 2

\* the run ended with the validation message and did nothing else
Aborted ==
    /\ run.assembled = <<>>
    /\ run.calls = <<>>
    /\ Len(run.reports) = 1
    /\ run.reports[1] \in {"warning: Selecione imagens", "error: Credenciais ausentes"}

SendsStoredZip ==
    run.action = "send" /\ credenciais_ok /\ run.had_stored /\ ~auto_split

TrailingDigits(s) ==
    LET k == CHOOSE n \in 0..Len(s) :
                 /\ \A i \in (Len(s) - n + 1)..Len(s) : IsDigitChar(s[i])
                 /\ n < Len(s) => ~IsDigitChar(s[Len(s) - n])
    IN  SubSeq(s, Len(s) - k + 1, Len(s))

\* s with its trailing run of digits increased by one, width and prefix kept
TrailingIncrement(s) ==
    LET d == TrailingDigits(s)
    IN  IF d = <<>> THEN s
        ELSE SubSeq(s, 1, Len(s) - Len(d)) \o zfill(str(int(d) + 1), Len(d))

\* C6: with auto-increment on, after a fully successful send the identifier
\* has its trailing digits increased by one, width and prefix kept, and an
\* identifier without trailing digits is unchanged.
SerialTrailingDigitsIncremented ==
    (/\ run.action = "send"
     /\ run.total > 0
     /\ run.sent = run.total
     /\ auto_increment_serial) => serial = TrailingIncrement(run.serial_before)

\* C9: what a send delivers is built from the files selected at the time of
\* the send (all of them in one bundle, or batch after batch from the first),
\* and a stored bundle that was already delivered is never transmitted again.
BundleFreshAndSentOnce ==
    run.action = "send" =>
        LET sent == Flatten([i \in 1..Len(run.delivered) |->
                                 FilesIn(run.delivered[i].zip)])
        IN  /\ ~run.resend
            /\ IF run.batched
               THEN sent = SubSeq(IdsOf(run.selected), 1, Len(sent))
               ELSE run.delivered # <<>> => sent = IdsOf(run.selected)

NoDuplicates(queue) ==
    \A i, j \in 1..Len(queue) : i # j => queue[i].id # queue[j].id

\* C10: over the script runs of a session the camera queue gains an entry only
\* when a photo is captured, holds each captured photo at most once, and is
\* emptied only by "Limpar selecao".
CameraQueueOncePerCapture ==
    [][/\ Len(camera_photos') > Len(camera_photos) => run'.action = "capture"
       /\ NoDuplicates(camera_photos')
       /\ (camera_photos # <<>> /\ camera_photos' = <<>>) => run'.action = "clear"]_vars

====
